---- MODULE Spec2Model ----
(***************************************************************************)
(* Reservation booking engine of the GPU server reservation system.        *)
(*                                                                         *)
(* The store is the reservations table of docs/ARCHITECTURE.md (section 3) *)
(* with its two constraints, CHECK (end_at > start_at) and the EXCLUDE     *)
(* constraint over active rows.  Request handlers run the booking          *)
(* transaction of the coordinator: validate, lock the resource's active    *)
(* reservation rows (SELECT FOR UPDATE), decide, write and commit, then    *)
(* hand the committed reservation to the calendar synchronisation.         *)
(***************************************************************************)
EXTENDS Integers, Sequences, FiniteSets, TLC

\* ------------------------------------------------------------------ bounds
NumProcs == 2          \* concurrent request handlers
MaxRes == 2            \* rows the reservations table may hold
MaxTime == 2           \* instants 0..MaxTime

Procs == 1..NumProcs
Times == 0..MaxTime

\* ------------------------------------------------------------ reference data
\* users.role ENUM DEFAULT 'user' ; role: 'user' | 'admin'
Users == {"u1", "u2", "root"}
Role(u) == IF u = "root" THEN "admin" ELSE "user"

\* server_resources rows and their is_active flag; "r0" names no row
Resources == {"r1", "r2", "r3"}
\* a catalog lookup that does not read is_active
IsActiveAlways(r) == r \in {"r1", "r2", "r3"}

IsActive(r) == r \in {"r1", "r2"}
ResourceIds == Resources \cup {"r0"}

NULL == 0

\* ------------------------------------------------------------------- state
VARIABLES
    reservations,     \* the committed reservations table: id -> row, ids 1..Len
    now,              \* the current instant
    calendarEnabled,  \* GOOGLE_CALENDAR_ENABLED
    layers,           \* the defence layers in force: "lock", "exclude"
    pc,               \* per handler: "idle", "acquire", "write", "done"
    req,              \* per handler: the request it serves
    result,           \* per handler: the response to that request
    held,             \* per handler: ids of the rows it holds FOR UPDATE
    syncPending,      \* calendar sync attempts scheduled and not yet run
    calendar,         \* ids of the reservations with an event in the calendar
    view,             \* the last answer of an availability query
    client,           \* the dashboard page of one signed-in user, with its modal
    auth,             \* the single-page app: stored tokens, AuthProvider, API calls
    modal             \* ReservationModal, in create or in edit mode

vars == <<reservations, now, calendarEnabled, layers, pc, req, result, held, syncPending,
          calendar, view, client, auth, modal>>

\* ----------------------------------------------------------------- requests
ValidRanges == {t \in Times \X Times : t[2] > t[1]}
InvalidRanges == {t \in Times \X Times : t[2] <= t[1]}

NoRequest ==
    [op |-> "none", user_id |-> "-", server_resource_id |-> "-", id |-> NULL,
     start_at |-> 0, end_at |-> 0]

\* POST /reservations/ {server_resource_id, title, start_at, end_at}
CreateRequest(u, r, t) ==
    [op |-> "create", user_id |-> u, server_resource_id |-> r, id |-> NULL,
     start_at |-> t[1], end_at |-> t[2]]

\* PUT /reservations/{id} {title, start_at, end_at}
UpdateRequest(u, i, t) ==
    [op |-> "update", user_id |-> u, server_resource_id |-> "-", id |-> i,
     start_at |-> t[1], end_at |-> t[2]]

\* DELETE /reservations/{id}
CancelRequest(u, i) ==
    [op |-> "cancel", user_id |-> u, server_resource_id |-> "-", id |-> i,
     start_at |-> 0, end_at |-> 0]

\* GET /reservations/{id}
ReadRequest(u, i) ==
    [op |-> "read", user_id |-> u, server_resource_id |-> "-", id |-> i,
     start_at |-> 0, end_at |-> 0]

\* DashboardPage as mounted: useState([]) events, useState(false) modalOpen;
\* ReservationModal as mounted: useState('') error, useState(false) loading
ClientStart ==
    [events |-> {}, modalOpen |-> FALSE, error |-> "", loading |-> FALSE,
     request |-> NoRequest]

\* useState<User | null>(null)
NoUser == "null"

\* the calls the app makes through the API client: /auth/me on mount,
\* /auth/login and the /auth/me that follows it, and a request of a page
CallNames == {"me", "login", "loginMe", "page"}

\* a call not made: originalRequest._retry unset, no response yet
NoCall == [stage |-> "idle", _retry |-> FALSE, sends |-> 0, status |-> 0, last |-> "none"]

\* the app as the document loads: useState(null) user, useState(true) loading,
\* localStorage with or without access_token and refresh_token
AuthStart(access, refresh) ==
    [access_token |-> access, refresh_token |-> refresh, user |-> NoUser,
     loading |-> TRUE, mounted |-> FALSE, path |-> "/", redirect |-> FALSE,
     calls |-> [c \in CallNames |-> NoCall]]

\* no modal on the page
ModalStart ==
    [open |-> FALSE, reservationId |-> NULL, loadingReservation |-> FALSE,
     isPastReservation |-> FALSE, loading |-> FALSE, error |-> "",
     request |-> NoRequest, inFlight |-> 0, orphaned |-> FALSE]

\* no availability query answered yet
NoView ==
    [kind |-> "none", server_resource_ids |-> {}, start_date |-> 0, end_date |-> 0,
     reservations |-> {}, current |-> <<>>, next |-> <<>>, during |-> {}]

NoResult == [outcome |-> "none", id |-> NULL, calendar_synced |-> FALSE]

Failure(kind) == [outcome |-> kind, id |-> NULL, calendar_synced |-> FALSE]

\* the reservation as returned to the caller; calendar_synced: false while
\* google_event_id is null
Success(table, i) ==
    [outcome |-> "ok", id |-> i,
     calendar_synced |-> (table[i].google_event_id # NULL)]

\* ------------------------------------------------------------------- store
Ids == 1..Len(reservations)

\* a validation that lets an empty range through
ValidRangeNonStrict(s, e) == e >= s

\* Time Range: valid() requires strictly positive duration
ValidRange(s, e) == e > s

\* ranges compared as closed intervals: touching ranges count as overlapping
OverlapsClosed(s1, e1, s2, e2) == s1 <= e2 /\ s2 <= e1

\* tstzrange(start_at, end_at) WITH &&: half-open ranges share an instant
Overlaps(s1, e1, s2, e2) == s1 < e2 /\ s2 < e1

\* the rows of one resource, whatever their status
ActiveRowsAnyStatus(table, r) ==
    {i \in 1..Len(table) : table[i].server_resource_id = r}

\* the active rows of one resource
ActiveRows(table, r) ==
    {i \in 1..Len(table) :
        table[i].server_resource_id = r /\ table[i].status = "active"}

\* Conflict Detector: hasConflict(resourceId, candidateRange, excludeReservationId?)
HasConflict(table, r, s, e, exclude) ==
    \E i \in ActiveRows(table, r) :
        i # exclude /\ Overlaps(s, e, table[i].start_at, table[i].end_at)

\* a constraint on equal ranges only, in place of the range overlap operator
ExcludeViolatedEqualRange(table, i, row) ==
    /\ row.status = "active"
    /\ \E j \in 1..Len(table) :
          /\ j # i
          /\ table[j].status = "active"
          /\ table[j].server_resource_id = row.server_resource_id
          /\ row.start_at = table[j].start_at
          /\ row.end_at = table[j].end_at

\* a constraint that also compares the written row with its own stored version
ExcludeViolatedWithSelf(table, i, row) ==
    /\ row.status = "active"
    /\ \E j \in 1..Len(table) :
          /\ table[j].status = "active"
          /\ table[j].server_resource_id = row.server_resource_id
          /\ Overlaps(row.start_at, row.end_at, table[j].start_at, table[j].end_at)

\* a constraint without its WHERE (status = 'active') clause on stored rows
ExcludeViolatedAnyStatus(table, i, row) ==
    /\ row.status = "active"
    /\ \E j \in 1..Len(table) :
          /\ j # i
          /\ table[j].server_resource_id = row.server_resource_id
          /\ Overlaps(row.start_at, row.end_at, table[j].start_at, table[j].end_at)

\* a constraint without server_resource_id WITH =
ExcludeViolatedAnyResource(table, i, row) ==
    /\ row.status = "active"
    /\ \E j \in 1..Len(table) :
          /\ j # i
          /\ table[j].status = "active"
          /\ Overlaps(row.start_at, row.end_at, table[j].start_at, table[j].end_at)

\* EXCLUDE USING gist (server_resource_id WITH =,
\*   tstzrange(start_at, end_at) WITH &&) WHERE (status = 'active'):
\* would `row`, stored under id i, break the constraint in `table`
ExcludeViolated(table, i, row) ==
    /\ row.status = "active"
    /\ \E j \in 1..Len(table) :
          /\ j # i
          /\ table[j].status = "active"
          /\ table[j].server_resource_id = row.server_resource_id
          /\ Overlaps(row.start_at, row.end_at, table[j].start_at, table[j].end_at)

\* CHECK (end_at > start_at)
CheckViolated(row) == ~(row.end_at > row.start_at)

\* a table without the exclusion constraint
StorageRefusesCheckOnly(table, i, row) == CheckViolated(row)

\* the storage layer refuses a write that breaks a table constraint
StorageRefuses(table, i, row) ==
    \/ CheckViolated(row)
    \/ "exclude" \in layers /\ ExcludeViolated(table, i, row)

Store(table, i, row) ==
    IF i = Len(table) + 1 THEN Append(table, row) ELSE [table EXCEPT ![i] = row]

\* the resource whose rows a request works on
TargetResource(q) ==
    IF q.op = "create" THEN q.server_resource_id
    ELSE reservations[q.id].server_resource_id

\* a reservation counted as past only after the instant it ends
IsPastReservationStrict(row) == row.end_at < now

\* past reservation: new Date(r.end_at) <= new Date()
IsPastReservation(row) == row.end_at <= now

InFlight(p) == pc[p] \in {"acquire", "write"}

\* ------------------------------------------------------------------- Init
Init ==
    /\ reservations = <<>>
    /\ now = 0
    /\ calendarEnabled = FALSE
    /\ layers = {"lock", "exclude"}
    /\ pc = [p \in Procs |-> "idle"]
    /\ req = [p \in Procs |-> NoRequest]
    /\ result = [p \in Procs |-> NoResult]
    /\ held = [p \in Procs |-> {}]
    /\ syncPending = {}
    /\ calendar = {}
    /\ view = NoView
    /\ client = ClientStart
    /\ auth = AuthStart(FALSE, FALSE)
    /\ modal = ModalStart

\* ------------------------------------------------- checks before locking
\* a cancel endpoint open to every signed-in user
CancelAllowedAnyone(user, row) == TRUE

\* an update endpoint open to every signed-in user
UpdateAllowedAnyone(user, row) == TRUE

\* PUT /{id}: owner
UpdateAllowed(user, row) == row.user_id = user

\* DELETE /{id}: owner / admin
CancelAllowed(user, row) == row.user_id = user \/ Role(user) = "admin"

\* a cancel that checks ownership and elapsed time before the status
PrecheckStatusLast(q) ==
    IF q.op = "create" THEN
        IF ~ValidRange(q.start_at, q.end_at) THEN "InvalidRange"
        ELSE IF q.server_resource_id \notin Resources THEN "ResourceNotFound"
        ELSE IF ~IsActive(q.server_resource_id) THEN "ResourceInactive"
        ELSE "ok"
    ELSE IF q.op = "update" THEN
        IF ~ValidRange(q.start_at, q.end_at) THEN "InvalidRange"
        ELSE IF q.id \notin Ids THEN "NotFound"
        ELSE IF ~UpdateAllowed(q.user_id, reservations[q.id]) THEN "NotOwner"
        ELSE IF IsPastReservation(reservations[q.id]) THEN "PastReservation"
        ELSE "ok"
    ELSE IF q.op = "read" THEN
        IF q.id \notin Ids THEN "NotFound" ELSE "noop"
    ELSE
        IF q.id \notin Ids THEN "NotFound"
        ELSE IF ~CancelAllowed(q.user_id, reservations[q.id]) THEN "NotOwner"
        ELSE IF IsPastReservation(reservations[q.id]) THEN "PastReservation"
        ELSE IF reservations[q.id].status = "cancelled" THEN "noop"
        ELSE "ok"

\* "ok" lets the request go on to its booking transaction; "noop" is answered
\* with the reservation as it is (a read, a repeat cancel); anything else is
\* the failure returned
Precheck(q) ==
    IF q.op = "create" THEN
        IF ~ValidRange(q.start_at, q.end_at) THEN "InvalidRange"
        ELSE IF q.server_resource_id \notin Resources THEN "ResourceNotFound"
        ELSE IF ~IsActive(q.server_resource_id) THEN "ResourceInactive"
        ELSE "ok"
    ELSE IF q.op = "update" THEN
        IF ~ValidRange(q.start_at, q.end_at) THEN "InvalidRange"
        ELSE IF q.id \notin Ids THEN "NotFound"
        ELSE IF ~UpdateAllowed(q.user_id, reservations[q.id]) THEN "NotOwner"
        ELSE IF IsPastReservation(reservations[q.id]) THEN "PastReservation"
        ELSE "ok"
    ELSE IF q.op = "read" THEN
        IF q.id \notin Ids THEN "NotFound" ELSE "noop"
    ELSE
        IF q.id \notin Ids THEN "NotFound"
        ELSE IF reservations[q.id].status = "cancelled" THEN "noop"
        ELSE IF ~CancelAllowed(q.user_id, reservations[q.id]) THEN "NotOwner"
        ELSE IF IsPastReservation(reservations[q.id]) THEN "PastReservation"
        ELSE "ok"

\* ------------------------------------------------- exclusive access
\* a lock taken on the active rows of every server
RowsToLockAnyResource(table, r) ==
    {i \in 1..Len(table) : table[i].status = "active"}

\* Application level: SELECT FOR UPDATE locks the reservation rows of the
\* same server
RowsToLock(table, r) == IF "lock" \in layers THEN ActiveRows(table, r) ELSE {}

\* a row lock is granted only when no other transaction holds the row
LockFree(p, rows) == \A x \in Procs \ {p} : held[x] \cap rows = {}

\* a conflict check made for new reservations only
DetectsConflictOnCreate(q) ==
    /\ q.op = "create"
    /\ HasConflict(reservations, TargetResource(q), q.start_at, q.end_at, q.id)

\* the conflict check a request makes on the rows it has locked
DetectsConflict(q) ==
    /\ q.op \in {"create", "update"}
    /\ HasConflict(reservations, TargetResource(q), q.start_at, q.end_at, q.id)

\* a conflict path that ends the request and leaves its row locks in place
UnderLockKeptOnConflict(p, q) ==
    LET rows == RowsToLock(reservations, TargetResource(q)) IN
    IF DetectsConflict(q)
    THEN /\ pc' = [pc EXCEPT ![p] = "done"]
         /\ result' = [result EXCEPT ![p] = Failure("Conflict")]
         /\ held' = [held EXCEPT ![p] = rows]
    ELSE /\ pc' = [pc EXCEPT ![p] = "write"]
         /\ result' = [result EXCEPT ![p] = NoResult]
         /\ held' = [held EXCEPT ![p] = rows]

\* handler p gets its row locks and checks for a conflict under them
UnderLock(p, q) ==
    LET rows == RowsToLock(reservations, TargetResource(q)) IN
    IF DetectsConflict(q)
    THEN /\ pc' = [pc EXCEPT ![p] = "done"]
         /\ result' = [result EXCEPT ![p] = Failure("Conflict")]
         /\ held' = [held EXCEPT ![p] = {}]
    ELSE /\ pc' = [pc EXCEPT ![p] = "write"]
         /\ result' = [result EXCEPT ![p] = NoResult]
         /\ held' = [held EXCEPT ![p] = rows]

\* handler p waits for row locks another transaction holds
Blocked(p) ==
    /\ pc[p] = "acquire"
    /\ ~LockFree(p, RowsToLock(reservations, TargetResource(req[p])))

\* a request arrives at handler p
Submit(p, q) ==
    /\ pc[p] = "idle"
    /\ req' = [req EXCEPT ![p] = q]
    /\ LET v == Precheck(q) IN
          IF v = "ok" THEN
              IF LockFree(p, RowsToLock(reservations, TargetResource(q)))
              THEN UnderLock(p, q)
              ELSE /\ pc' = [pc EXCEPT ![p] = "acquire"]
                   /\ UNCHANGED <<result, held>>
          ELSE /\ pc' = [pc EXCEPT ![p] = "done"]
               /\ result' = [result EXCEPT ![p] =
                     IF v = "noop" THEN Success(reservations, q.id) ELSE Failure(v)]
               /\ UNCHANGED held
    /\ UNCHANGED <<reservations, now, calendarEnabled, layers, syncPending, view, calendar, client, auth, modal>>

\* the holder released; the waiting handler gets its locks
Acquire(p) ==
    /\ pc[p] = "acquire"
    /\ LockFree(p, RowsToLock(reservations, TargetResource(req[p])))
    /\ UnderLock(p, req[p])
    /\ UNCHANGED <<reservations, now, calendarEnabled, layers, req, syncPending, view, calendar, client, auth, modal>>

\* a wait that ends in the failure of the conflict path
LockTimeoutAsConflict(p) ==
    /\ Blocked(p)
    /\ pc' = [pc EXCEPT ![p] = "done"]
    /\ result' = [result EXCEPT ![p] = Failure("Conflict")]
    /\ UNCHANGED <<reservations, now, calendarEnabled, layers, req, held, syncPending, view, calendar, client, auth, modal>>

\* the bounded wait for exclusive access expires
LockTimeout(p) ==
    /\ Blocked(p)
    /\ pc' = [pc EXCEPT ![p] = "done"]
    /\ result' = [result EXCEPT ![p] = Failure("Busy")]
    /\ UNCHANGED <<reservations, now, calendarEnabled, layers, req, held, syncPending, view, calendar, client, auth, modal>>

\* ------------------------------------------------- write and commit
\* the row a request writes, and the id it is stored under
WrittenId(q) == IF q.op = "create" THEN Len(reservations) + 1 ELSE q.id

\* an update that writes the row back as active
WrittenRowReactivating(q) ==
    IF q.op = "create" THEN
        [user_id |-> q.user_id, server_resource_id |-> q.server_resource_id,
         start_at |-> q.start_at, end_at |-> q.end_at,
         status |-> "active", google_event_id |-> NULL]
    ELSE IF q.op = "update" THEN
        [reservations[q.id] EXCEPT !.start_at = q.start_at, !.end_at = q.end_at,
                                   !.status = "active"]
    ELSE
        [reservations[q.id] EXCEPT !.status = "cancelled"]

\* a cancel that also gives up the reservation's owner
WrittenRowCancelDisowning(q) ==
    IF q.op = "create" THEN
        [user_id |-> q.user_id, server_resource_id |-> q.server_resource_id,
         start_at |-> q.start_at, end_at |-> q.end_at,
         status |-> "active", google_event_id |-> NULL]
    ELSE IF q.op = "update" THEN
        [reservations[q.id] EXCEPT !.start_at = q.start_at, !.end_at = q.end_at]
    ELSE
        [reservations[q.id] EXCEPT !.status = "cancelled", !.user_id = "-"]

WrittenRow(q) ==
    IF q.op = "create" THEN
        [user_id |-> q.user_id, server_resource_id |-> q.server_resource_id,
         start_at |-> q.start_at, end_at |-> q.end_at,
         status |-> "active", google_event_id |-> NULL]
    ELSE IF q.op = "update" THEN
        [reservations[q.id] EXCEPT !.start_at = q.start_at, !.end_at = q.end_at]
    ELSE
        [reservations[q.id] EXCEPT !.status = "cancelled"]

\* DB create success -> Calendar event create; update -> event update;
\* cancel -> event delete
SyncTask(q, i) == [id |-> i, kind |-> q.op]

\* a sync attempt scheduled whether or not the write was committed
ScheduledSyncAlways(q, i, committed) ==
    IF calendarEnabled THEN {SyncTask(q, i)} ELSE {}

\* the sync attempts a transaction schedules when it ends, committed or not
ScheduledSync(q, i, committed) ==
    IF committed /\ calendarEnabled THEN {SyncTask(q, i)} ELSE {}

\* a response that reports the outcome of a sync it has waited for
ResponseAfterSync(table, i, committed) ==
    IF committed
    THEN [outcome |-> "ok", id |-> i, calendar_synced |-> TRUE]
    ELSE Failure("Conflict")

\* a refusal of the storage layer passed on to the caller as it was raised
ResponseUntyped(table, i, committed) ==
    IF committed THEN Success(table, i) ELSE Failure("IntegrityError")

\* what the caller gets back from a transaction that ends at its write
Response(table, i, committed) ==
    IF committed THEN Success(table, i) ELSE Failure("Conflict")

Commit(p) ==
    /\ pc[p] = "write"
    /\ LET q == req[p]
           i == WrittenId(q)
           row == WrittenRow(q)
           committed == ~StorageRefuses(reservations, i, row)
           table == IF committed THEN Store(reservations, i, row) ELSE reservations
       IN /\ reservations' = table
          /\ result' = [result EXCEPT ![p] = Response(table, i, committed)]
          /\ syncPending' = syncPending \cup ScheduledSync(q, i, committed)
    /\ pc' = [pc EXCEPT ![p] = "done"]
    /\ held' = [held EXCEPT ![p] = {}]
    /\ UNCHANGED <<now, calendarEnabled, layers, req, view, calendar, client, auth, modal>>

\* the response has been delivered; the handler is free again
Collect(p) ==
    /\ pc[p] = "done"
    /\ pc' = [pc EXCEPT ![p] = "idle"]
    /\ req' = [req EXCEPT ![p] = NoRequest]
    /\ result' = [result EXCEPT ![p] = NoResult]
    /\ UNCHANGED <<reservations, now, calendarEnabled, layers, held, syncPending, view, calendar, client, auth, modal>>

\* ------------------------------------------------- calendar sync
\* a failed event creation that takes the booking back
SyncEffectRollback(table, t, succeeded) ==
    IF t.kind = "create"
    THEN IF succeeded
         THEN [table EXCEPT ![t.id].google_event_id = t.id]
         ELSE [table EXCEPT ![t.id].status = "cancelled"]
    ELSE table

\* one attempt, run after the response; on failure google_event_id stays null
SyncEffect(table, t, succeeded) ==
    IF succeeded /\ t.kind = "create"
    THEN [table EXCEPT ![t.id].google_event_id = t.id]
    ELSE table

\* the calendar after one attempt: create makes the reservation's event;
\* update and cancel change or delete the event the reservation's
\* google_event_id names, and find none while it is null
CalendarEffect(cal, table, t, succeeded) ==
    IF ~succeeded THEN cal
    ELSE IF t.kind = "create" THEN cal \cup {t.id}
    ELSE IF t.kind = "cancel" /\ table[t.id].google_event_id # NULL THEN cal \ {t.id}
    ELSE cal

SyncAttempt(t, succeeded) ==
    /\ t \in syncPending
    /\ syncPending' = syncPending \ {t}
    /\ reservations' = SyncEffect(reservations, t, succeeded)
    /\ calendar' = CalendarEffect(calendar, reservations, t, succeeded)
    /\ UNCHANGED <<now, calendarEnabled, layers, pc, req, result, held, view, client, auth, modal>>

\* ------------------------------------------------- time
Tick ==
    /\ now < MaxTime
    /\ now' = now + 1
    /\ UNCHANGED <<reservations, calendarEnabled, layers, pc, req, result, held, syncPending, view, calendar, client, auth, modal>>

\* ------------------------------------------------- availability queries
\* a read that also sees the row a transaction has written and not committed
SnapshotDirty ==
    IF \E p \in Procs : pc[p] = "write"
    THEN LET p == CHOOSE x \in Procs : pc[x] = "write"
         IN Store(reservations, WrittenId(req[p]), WrittenRow(req[p]))
    ELSE reservations

\* what a read sees: the committed rows
Snapshot == reservations

Entry(table, i) == [id |-> i, row |-> table[i]]

\* a timeline that lists cancelled reservations too
TimelineAnyStatus(table, rs, s, e) ==
    {i \in 1..Len(table) :
        /\ table[i].server_resource_id \in rs
        /\ Overlaps(table[i].start_at, table[i].end_at, s, e)}

\* dashboardAPI.timeline({start_date, end_date, server_resource_ids}): the
\* active reservations of the asked servers that intersect the window
Timeline(table, rs, s, e) ==
    {i \in 1..Len(table) :
        /\ table[i].status = "active"
        /\ table[i].server_resource_id \in rs
        /\ Overlaps(table[i].start_at, table[i].end_at, s, e)}

\* the active reservations of server r in progress at instant t
Occupants(table, r, t) ==
    {i \in ActiveRows(table, r) : table[i].start_at <= t /\ t < table[i].end_at}

\* ResourceStatus.current_reservation: one reservation, or null
CurrentReservation(table, r, t) ==
    LET S == Occupants(table, r, t) IN
    IF S = {} THEN NULL ELSE CHOOSE i \in S : TRUE

\* ResourceStatus.next_reservation: the first active one to start after t, or null
NextReservation(table, r, t) ==
    LET S == {i \in ActiveRows(table, r) : table[i].start_at > t} IN
    IF S = {} THEN NULL
    ELSE CHOOSE i \in S : \A j \in S : table[i].start_at <= table[j].start_at

\* GET /dashboard/timeline: no lock is asked for, nothing is written
QueryTimeline(rs, s, e) ==
    /\ view' = [kind |-> "timeline", server_resource_ids |-> rs,
                start_date |-> s, end_date |-> e,
                reservations |-> {Entry(Snapshot, i) : i \in Timeline(Snapshot, rs, s, e)},
                current |-> <<>>, next |-> <<>>,
                during |-> {p \in Procs : InFlight(p)}]
    /\ UNCHANGED <<reservations, now, calendarEnabled, layers, pc, req, result, held,
                   syncPending, calendar, client, auth, modal>>

\* GET /dashboard/status: current and next reservation of every active server
QueryStatus ==
    /\ view' = [kind |-> "status", server_resource_ids |-> {r \in Resources : IsActive(r)},
                start_date |-> now, end_date |-> now,
                reservations |->
                    {Entry(Snapshot, i) :
                        i \in ({CurrentReservation(Snapshot, r, now) : r \in Resources}
                                \cup {NextReservation(Snapshot, r, now) : r \in Resources})
                               \ {NULL}},
                current |-> [r \in {x \in Resources : IsActive(x)} |->
                                CurrentReservation(Snapshot, r, now)],
                next |-> [r \in {x \in Resources : IsActive(x)} |->
                                NextReservation(Snapshot, r, now)],
                during |-> {p \in Procs : InFlight(p)}]
    /\ UNCHANGED <<reservations, now, calendarEnabled, layers, pc, req, result, held,
                   syncPending, calendar, client, auth, modal>>

\* ------------------------------------------------- the dashboard client
\* the handler that serves the page's requests, and the user signed in
ClientHandler == 1
ClientUser == "u1"

\* what fetchTimeline gets for the date range shown: every active reservation
ShownRange == <<0, MaxTime>>
FetchedEvents == Timeline(Snapshot, Resources, ShownRange[1], ShownRange[2])

\* handleDatesSet: fetchTimeline(startStr, endStr), then setEvents(allEvents)
handleDatesSet ==
    /\ client' = [client EXCEPT !.events = FetchedEvents]
    /\ UNCHANGED <<reservations, now, calendarEnabled, layers, pc, req, result, held,
                   syncPending, calendar, view, auth, modal>>

\* handleDateSelect: setModalOpen(true); the modal mounts with its initial state
handleDateSelect ==
    /\ ~client.modalOpen
    /\ client' = [client EXCEPT !.modalOpen = TRUE, !.error = "", !.loading = FALSE]
    /\ UNCHANGED <<reservations, now, calendarEnabled, layers, pc, req, result, held,
                   syncPending, calendar, view, auth, modal>>

\* onClose: setModalOpen(false), here while no request is outstanding
onClose ==
    /\ client.modalOpen
    /\ ~client.loading
    /\ client' = [client EXCEPT !.modalOpen = FALSE]
    /\ UNCHANGED <<reservations, now, calendarEnabled, layers, pc, req, result, held,
                   syncPending, calendar, view, auth, modal>>

\* handleSubmit up to its await: setError(''), setLoading(true),
\* reservationsAPI.create(...)
handleSubmit(q) ==
    /\ client.modalOpen
    /\ ~client.loading
    /\ client' = [client EXCEPT !.error = "", !.loading = TRUE, !.request = q]
    /\ UNCHANGED <<reservations, now, calendarEnabled, layers, pc, req, result, held,
                   syncPending, calendar, view, auth, modal>>

\* the request sent by handleSubmit reaches the API
RequestArrives ==
    /\ client.loading
    /\ Submit(ClientHandler, client.request)

\* handleReservationCreated: setModalOpen(false) and window.location.reload(),
\* after which the page mounts again and fetches the timeline
handleReservationCreated ==
    [client EXCEPT !.modalOpen = FALSE, !.events = FetchedEvents,
                   !.error = "", !.loading = FALSE, !.request = NoRequest]

\* the catch and finally blocks of handleSubmit: setError(message),
\* setLoading(false)
handleSubmitFailed(kind) ==
    [client EXCEPT !.error = kind, !.loading = FALSE, !.request = NoRequest]

\* handleSubmit after its await: onCreated() on success, else the catch block
handleSubmitSettled ==
    /\ client.loading
    /\ pc[ClientHandler] = "done"
    /\ client' = IF result[ClientHandler].outcome = "ok"
                 THEN handleReservationCreated
                 ELSE handleSubmitFailed(result[ClientHandler].outcome)
    /\ UNCHANGED <<reservations, now, calendarEnabled, layers, pc, req, result, held,
                   syncPending, calendar, view, auth, modal>>

\* ------------------------------------------------- the single-page app
\* everything but the app's own state
BesidesAuth ==
    <<reservations, now, calendarEnabled, layers, pc, req, result, held, syncPending,
      calendar, view, client, modal>>

\* App: the routes of the protected and of the public pages
ProtectedPaths == {"/", "/feedback"}
PublicPaths == {"/login", "/register"}
Paths == ProtectedPaths \cup PublicPaths \cup {"/other"}

\* responses of the API as the interceptor tells them apart
Statuses == {200, 401, 500}

\* a private route that does not wait for the auth state to load
PrivateRouteNotWaiting(a, page) ==
    IF a.user = NoUser /\ ~a.loading THEN "Navigate:/login" ELSE page

\* PrivateRoute: Loading..., <Navigate to="/login">, or the children
PrivateRoute(a, page) ==
    IF a.loading THEN "Loading"
    ELSE IF a.user = NoUser THEN "Navigate:/login"
    ELSE page

\* PublicRoute: Loading..., <Navigate to="/">, or the children
PublicRoute(a, page) ==
    IF a.loading THEN "Loading"
    ELSE IF a.user # NoUser THEN "Navigate:/"
    ELSE page

\* App: what the router puts on the screen for the current path
Rendered(a) ==
    IF a.path \in ProtectedPaths THEN PrivateRoute(a, a.path)
    ELSE IF a.path \in PublicPaths THEN PublicRoute(a, a.path)
    ELSE "Navigate:/"

\* a request as api sends it the first time
SentCall == [stage |-> "sent", _retry |-> FALSE, sends |-> 1, status |-> 0, last |-> "none"]

\* what the caller of call c does when its promise settles.  /auth/me on
\* mount: then setUser, catch removeItem twice, finally setLoading(false).
\* login: store both tokens, then call /auth/me and setUser with its answer.
Settled(a, c, ok) ==
    LET b == [a EXCEPT !.calls[c].stage = "idle",
                       !.calls[c].last = IF ok THEN "resolved" ELSE "rejected"]
    IN IF c = "me" THEN
           IF ok THEN [b EXCEPT !.user = "u1", !.loading = FALSE]
           ELSE [b EXCEPT !.access_token = FALSE, !.refresh_token = FALSE,
                          !.loading = FALSE]
       ELSE IF c = "login" THEN
           IF ok THEN [b EXCEPT !.access_token = TRUE, !.refresh_token = TRUE,
                                !.calls["loginMe"] = SentCall]
           ELSE b
       ELSE IF c = "loginMe" THEN
           IF ok THEN [b EXCEPT !.user = "u1"] ELSE b
       ELSE b

\* an interceptor without the _retry flag: every 401 is answered by a refresh
InterceptedAlwaysRefreshing(a, c, status) ==
    LET call == a.calls[c]
        b == [a EXCEPT !.calls[c].status = status] IN
    IF status = 200 THEN Settled(b, c, TRUE)
    ELSE IF status = 401 THEN
        IF a.refresh_token
        THEN [b EXCEPT !.calls[c].stage = "refreshing"]
        ELSE Settled([b EXCEPT !.redirect = TRUE], c, FALSE)
    ELSE Settled(b, c, FALSE)

\* api.interceptors.response.use: a response passes; a 401 of a request not
\* yet retried sets _retry and, with a refresh token stored, awaits
\* /auth/refresh, without one sets window.location.href = '/login'; every
\* other error, and the 401 without a refresh token, is rejected
Intercepted(a, c, status) ==
    LET call == a.calls[c]
        b == [a EXCEPT !.calls[c].status = status] IN
    IF status = 200 THEN Settled(b, c, TRUE)
    ELSE IF status = 401 /\ ~call._retry THEN
        IF a.refresh_token
        THEN [b EXCEPT !.calls[c].stage = "refreshing", !.calls[c]._retry = TRUE]
        ELSE Settled([b EXCEPT !.redirect = TRUE, !.calls[c]._retry = TRUE], c, FALSE)
    ELSE Settled(b, c, FALSE)

\* the API answers call c
Respond(c, status) ==
    /\ auth.calls[c].stage = "sent"
    /\ auth' = Intercepted(auth, c, status)
    /\ UNCHANGED BesidesAuth

\* /auth/refresh answers: both tokens are replaced and the original request
\* is sent again; or both are removed, the location is set to /login and the
\* original error is rejected
RefreshResponds(c, ok) ==
    /\ auth.calls[c].stage = "refreshing"
    /\ auth' =
          IF ok
          THEN [auth EXCEPT !.access_token = TRUE, !.refresh_token = TRUE,
                            !.calls[c].stage = "sent",
                            !.calls[c].sends = @ + 1]
          ELSE Settled([auth EXCEPT !.access_token = FALSE, !.refresh_token = FALSE,
                                    !.redirect = TRUE], c, FALSE)
    /\ UNCHANGED BesidesAuth

\* an effect on mount that leaves loading as it is when no token is stored
MountedLeavingLoading(a) ==
    IF a.access_token
    THEN [a EXCEPT !.mounted = TRUE, !.calls["me"] = SentCall]
    ELSE [a EXCEPT !.mounted = TRUE]

\* AuthProvider useEffect: with an access token stored call /auth/me, else
\* setLoading(false)
Mounted(a) ==
    IF a.access_token
    THEN [a EXCEPT !.mounted = TRUE, !.calls["me"] = SentCall]
    ELSE [a EXCEPT !.mounted = TRUE, !.loading = FALSE]

Mount ==
    /\ ~auth.mounted
    /\ auth' = Mounted(auth)
    /\ UNCHANGED BesidesAuth

\* login, from a public page: authAPI.login
login ==
    /\ auth.mounted
    /\ Rendered(auth) \in PublicPaths
    /\ auth.calls["login"].stage = "idle"
    /\ auth.calls["loginMe"].stage = "idle"
    /\ auth' = [auth EXCEPT !.calls["login"] = SentCall]
    /\ UNCHANGED BesidesAuth

\* logout: removeItem('access_token'), removeItem('refresh_token'), setUser(null)
LoggedOut(a) ==
    [a EXCEPT !.access_token = FALSE, !.refresh_token = FALSE, !.user = NoUser]

logout ==
    /\ auth.mounted
    /\ Rendered(auth) \in ProtectedPaths
    /\ auth' = LoggedOut(auth)
    /\ UNCHANGED BesidesAuth

\* a protected page asks the API for its data
PageRequest ==
    /\ auth.mounted
    /\ Rendered(auth) \in ProtectedPaths
    /\ auth.calls["page"].stage = "idle"
    /\ auth' = [auth EXCEPT !.calls["page"] = SentCall]
    /\ UNCHANGED BesidesAuth

\* <Navigate to=... replace />
RouteNavigates ==
    /\ auth.mounted
    /\ \E p \in Paths :
          /\ Rendered(auth) = "Navigate:" \o p
          /\ auth' = [auth EXCEPT !.path = p]
    /\ UNCHANGED BesidesAuth

\* the user follows a link to another path
Go(p) ==
    /\ auth.mounted
    /\ p # auth.path
    /\ auth' = [auth EXCEPT !.path = p]
    /\ UNCHANGED BesidesAuth

\* window.location.href = '/login' takes effect: the document is loaded
\* again, the stored tokens are what they were, every pending promise is gone
Reload ==
    /\ auth.redirect
    /\ auth' = [AuthStart(auth.access_token, auth.refresh_token) EXCEPT !.path = "/login"]
    /\ UNCHANGED BesidesAuth

\* ------------------------------------------------- the reservation modal
\* everything but the modal's own state
BesidesModal ==
    <<reservations, now, calendarEnabled, layers, pc, req, result, held, syncPending,
      calendar, view, client, auth>>

\* isEdit = Boolean(reservationId)
isEdit(m) == m.reservationId # NULL

\* controls that stay enabled while a request is in flight
ControlsDisabledPastOnly(m) == m.isPastReservation

\* disabled={loading || isPastReservation}, on the submit and on the delete
\* button alike
ControlsDisabled(m) == m.loading \/ m.isPastReservation

\* the form and its controls are on the screen and can be used
ControlsUsable(m) == m.open /\ ~m.loadingReservation /\ ~ControlsDisabled(m)

\* the parent mounts the modal, for a new reservation or for reservation i;
\* in edit mode the modal starts with loadingReservation and asks for the
\* reservation.  A modal is mounted once the request of the one before it
\* has been answered.
OpenModal(i) ==
    /\ ~modal.open
    /\ ~modal.orphaned
    /\ modal' = [ModalStart EXCEPT !.open = TRUE, !.reservationId = i,
                                   !.loadingReservation = (i # NULL)]
    /\ UNCHANGED BesidesModal

\* useEffect: reservationsAPI.get answers; setIsPastReservation(end_at <= now)
\* on success, setError on failure, setLoadingReservation(false) in both
ReservationLoaded(ok) ==
    /\ modal.open
    /\ modal.loadingReservation
    /\ ok => modal.reservationId \in 1..Len(Snapshot)
    /\ modal' = IF ok
                THEN [modal EXCEPT !.loadingReservation = FALSE,
                                   !.isPastReservation =
                                       IsPastReservation(Snapshot[modal.reservationId])]
                ELSE [modal EXCEPT !.loadingReservation = FALSE, !.error = "load"]
    /\ UNCHANGED BesidesModal

\* handleSubmit up to its await: setError(''), setLoading(true), then
\* reservationsAPI.update in edit mode and reservationsAPI.create otherwise
ModalSubmit(t) ==
    /\ ControlsUsable(modal)
    /\ modal.inFlight < 2
    /\ modal' = [modal EXCEPT
                    !.error = "", !.loading = TRUE, !.inFlight = @ + 1,
                    !.request = IF isEdit(modal)
                                THEN UpdateRequest(ClientUser, modal.reservationId, t)
                                ELSE CreateRequest(ClientUser, "r1", t)]
    /\ UNCHANGED BesidesModal

\* handleDelete up to its await, the confirm accepted: setError(''),
\* setLoading(true), reservationsAPI.cancel
ModalDelete ==
    /\ isEdit(modal)
    /\ ControlsUsable(modal)
    /\ modal.inFlight < 2
    /\ modal' = [modal EXCEPT
                    !.error = "", !.loading = TRUE, !.inFlight = @ + 1,
                    !.request = CancelRequest(ClientUser, modal.reservationId)]
    /\ UNCHANGED BesidesModal

\* the request sent by the modal reaches the API
ModalRequestArrives ==
    /\ modal.request # NoRequest
    /\ Submit(ClientHandler, modal.request)

\* handleSubmit and handleDelete after their await: the callback of the
\* parent on success (onCreated closes the modal; onUpdated and onDeleted
\* are optional and may close it), setError on failure, setLoading(false)
\* in both.  The answer to a modal already closed finds nothing to set.
\* The response is delivered by this step and the handler is free again.
ModalSettled(closes) ==
    /\ modal.request # NoRequest
    /\ pc[ClientHandler] = "done"
    /\ LET outcome == result[ClientHandler].outcome IN
       modal' =
          IF modal.orphaned THEN ModalStart
          ELSE IF outcome = "ok" /\ (closes \/ modal.request.op = "create") THEN ModalStart
          ELSE [modal EXCEPT !.loading = FALSE, !.inFlight = @ - 1,
                             !.request = NoRequest,
                             !.error = IF outcome = "ok" THEN @ ELSE outcome]
    /\ pc' = [pc EXCEPT ![ClientHandler] = "idle"]
    /\ req' = [req EXCEPT ![ClientHandler] = NoRequest]
    /\ result' = [result EXCEPT ![ClientHandler] = NoResult]
    /\ UNCHANGED <<reservations, now, calendarEnabled, layers, held, syncPending,
                   calendar, view, client, auth>>

\* onClose: the parent unmounts the modal; a request in flight stays so
CloseModal ==
    /\ modal.open
    /\ modal' = IF modal.request # NoRequest
                THEN [ModalStart EXCEPT !.request = modal.request, !.orphaned = TRUE]
                ELSE ModalStart
    /\ UNCHANGED BesidesModal

\* ------------------------------------------------- specification
\* room left in the table for the row an admitted create may insert
CreatesInFlight == Cardinality({x \in Procs : InFlight(x) /\ req[x].op = "create"})

HasRoom(q) == q.op = "create" => Len(reservations) + CreatesInFlight < MaxRes

\* a response is delivered before any other step is taken: delivery
\* commutes with every other step
NoneDone == \A p \in Procs : pc[p] # "done"

\* Concurrent handlers.  Reservations are booked by one user and changed by
\* their owner, by another user and by the administrator.
Requests ==
    {CreateRequest("u1", r, t) : r \in ResourceIds, t \in ValidRanges}
    \cup {CreateRequest("u1", "r1", t) : t \in InvalidRanges}
    \cup {UpdateRequest(u, i, t) : u \in Users, i \in 1..(MaxRes + 1), t \in ValidRanges}
    \cup {UpdateRequest("u1", 1, t) : t \in InvalidRanges}
    \cup {CancelRequest(u, i) : u \in Users, i \in 1..(MaxRes + 1)}

Next ==
    \/ NoneDone /\ \E p \in Procs, q \in Requests : HasRoom(q) /\ Submit(p, q)
    \/ NoneDone /\ \E p \in Procs : Acquire(p)
    \/ NoneDone /\ \E p \in Procs : LockTimeout(p)
    \/ NoneDone /\ \E p \in Procs : Commit(p)
    \/ NoneDone /\ Tick
    \/ \E p \in Procs : Collect(p)

Spec == Init /\ [][Next]_vars

\* One handler serving one request at a time; any user books any resource.
SoloRequests ==
    {CreateRequest(u, r, t) : u \in Users, r \in ResourceIds, t \in ValidRanges}
    \cup {CreateRequest(u, "r1", t) : u \in Users, t \in InvalidRanges}
    \cup {UpdateRequest(u, i, t) : u \in Users, i \in 1..(MaxRes + 1), t \in ValidRanges}
    \cup {UpdateRequest(u, 1, t) : u \in Users, t \in InvalidRanges}
    \cup {CancelRequest(u, i) : u \in Users, i \in 1..(MaxRes + 1)}
    \cup {ReadRequest(u, i) : u \in Users, i \in 1..(MaxRes + 1)}

NextSolo ==
    \/ NoneDone /\ \E q \in SoloRequests : HasRoom(q) /\ Submit(1, q)
    \/ NoneDone /\ Commit(1)
    \/ NoneDone /\ Tick
    \/ Collect(1)

SpecSolo == Init /\ [][NextSolo]_vars

\* Every handler serves one create, submitted in any order and at any
\* moment, against a table that holds at most one earlier reservation.
RaceTables ==
    {<<>>} \cup
    {<<[user_id |-> "u1", server_resource_id |-> r, start_at |-> t[1],
        end_at |-> t[2], status |-> st, google_event_id |-> NULL]>> :
        r \in {x \in Resources : IsActive(x)}, t \in ValidRanges,
        st \in {"active", "cancelled"}}

RaceRequests ==
    {CreateRequest(u, r, t) :
        u \in Users, r \in {x \in Resources : IsActive(x)}, t \in ValidRanges}

InitRace ==
    /\ reservations \in RaceTables
    /\ now = 0
    /\ calendarEnabled = FALSE
    /\ layers = {"lock", "exclude"}
    /\ pc = [p \in Procs |-> "idle"]
    /\ req = [p \in Procs |-> NoRequest]
    /\ result = [p \in Procs |-> NoResult]
    /\ held = [p \in Procs |-> {}]
    /\ syncPending = {}
    /\ calendar = {}
    /\ view = NoView
    /\ client = ClientStart
    /\ auth = AuthStart(FALSE, FALSE)
    /\ modal = ModalStart

NextRace ==
    \/ \E p \in Procs, q \in RaceRequests : Submit(p, q)
    \/ \E p \in Procs : Acquire(p)
    \/ \E p \in Procs : LockTimeout(p)
    \/ \E p \in Procs : Commit(p)

SpecRace == InitRace /\ [][NextRace]_vars

\* Concurrent handlers with the calendar integration enabled: bookings of one
\* user on one resource, changed by their owner and by another user, and the
\* sync attempts they schedule, each of which succeeds or fails.
SyncRequests ==
    {CreateRequest("u1", r, t) : r \in {"r1", "r3"}, t \in ValidRanges}
    \cup {CreateRequest("u1", "r1", <<1, 1>>)}
    \cup {UpdateRequest(u, i, t) : u \in {"u1", "u2"}, i \in 1..MaxRes, t \in ValidRanges}
    \cup {CancelRequest(u, i) : u \in {"u1", "u2"}, i \in 1..(MaxRes + 1)}

InitSync ==
    /\ reservations = <<>>
    /\ now = 0
    /\ calendarEnabled = TRUE
    /\ layers = {"lock", "exclude"}
    /\ pc = [p \in Procs |-> "idle"]
    /\ req = [p \in Procs |-> NoRequest]
    /\ result = [p \in Procs |-> NoResult]
    /\ held = [p \in Procs |-> {}]
    /\ syncPending = {}
    /\ calendar = {}
    /\ view = NoView
    /\ client = ClientStart
    /\ auth = AuthStart(FALSE, FALSE)
    /\ modal = ModalStart

NextSync ==
    \/ /\ NoneDone
       /\ syncPending = {}
       /\ \E p \in Procs, q \in SyncRequests : HasRoom(q) /\ Submit(p, q)
    \/ NoneDone /\ \E p \in Procs : Acquire(p)
    \/ NoneDone /\ \E p \in Procs : LockTimeout(p)
    \/ NoneDone /\ \E p \in Procs : Commit(p)
    \/ \E p \in Procs : Collect(p)
    \/ \E t \in syncPending, succeeded \in BOOLEAN : SyncAttempt(t, succeeded)

SpecSync == InitSync /\ [][NextSync]_vars

\* Racing creates with one of the two defence layers out of force.
\* Without the row locks no handler ever waits.
InitStorageOnly ==
    /\ reservations \in RaceTables
    /\ now = 0
    /\ calendarEnabled = FALSE
    /\ layers = {"exclude"}
    /\ pc = [p \in Procs |-> "idle"]
    /\ req = [p \in Procs |-> NoRequest]
    /\ result = [p \in Procs |-> NoResult]
    /\ held = [p \in Procs |-> {}]
    /\ syncPending = {}
    /\ calendar = {}
    /\ view = NoView
    /\ client = ClientStart
    /\ auth = AuthStart(FALSE, FALSE)
    /\ modal = ModalStart

NextStorageOnly ==
    \/ \E p \in Procs, q \in RaceRequests : Submit(p, q)
    \/ \E p \in Procs : Commit(p)

SpecStorageOnly == InitStorageOnly /\ [][NextStorageOnly]_vars

InitAppOnly ==
    /\ reservations \in RaceTables
    /\ now = 0
    /\ calendarEnabled = FALSE
    /\ layers = {"lock"}
    /\ pc = [p \in Procs |-> "idle"]
    /\ req = [p \in Procs |-> NoRequest]
    /\ result = [p \in Procs |-> NoResult]
    /\ held = [p \in Procs |-> {}]
    /\ syncPending = {}
    /\ calendar = {}
    /\ view = NoView
    /\ client = ClientStart
    /\ auth = AuthStart(FALSE, FALSE)
    /\ modal = ModalStart

SpecAppOnly == InitAppOnly /\ [][NextRace]_vars

\* Contending creates, updates and cancels of one user, one request per
\* handler.  A transaction at its write completes, and a waiting one is
\* either granted its locks or times out.
ContendRequests ==
    {CreateRequest("u1", r, t) : r \in {"r1", "r2"}, t \in ValidRanges}
    \cup {UpdateRequest("u1", 1, t) : t \in ValidRanges}
    \cup {CancelRequest("u1", 1)}

NextContend ==
    \/ \E p \in Procs, q \in ContendRequests : Submit(p, q)
    \/ \E p \in Procs : Acquire(p)
    \/ \E p \in Procs : LockTimeout(p)
    \/ \E p \in Procs : Commit(p)

SpecContend ==
    /\ InitRace
    /\ [][NextContend]_vars
    /\ \A p \in Procs : WF_vars(Commit(p))
    /\ \A p \in Procs : WF_vars(Acquire(p) \/ LockTimeout(p))

\* Availability queries asked at any moment of contending bookings, while
\* time passes.
QueryWindows == ValidRanges
QueryResources == {{"r1"}, {"r1", "r2"}}

QueryRequests == {q \in ContendRequests : q.op = "create" => q.server_resource_id = "r1"}

NextQuery ==
    \/ \E p \in Procs, q \in QueryRequests : Submit(p, q)
    \/ \E p \in Procs : Acquire(p)
    \/ \E p \in Procs : LockTimeout(p)
    \/ \E p \in Procs : Commit(p)
    \/ Tick
    \/ \E rs \in QueryResources, w \in QueryWindows : QueryTimeline(rs, w[1], w[2])
    \/ QueryStatus

SpecQuery == InitRace /\ [][NextQuery]_vars

\* Bookings of one user on one server with the calendar integration enabled
\* and a calendar that answers every call.  A scheduled sync attempt runs at
\* some later moment, in no fixed order with the attempts of later requests.
MirrorRequests ==
    {CreateRequest("u1", "r1", t) : t \in ValidRanges}
    \cup {UpdateRequest("u1", i, t) : i \in 1..MaxRes, t \in ValidRanges}
    \cup {CancelRequest("u1", i) : i \in 1..MaxRes}

NextMirror ==
    \/ NoneDone /\ \E p \in Procs, q \in MirrorRequests : HasRoom(q) /\ Submit(p, q)
    \/ NoneDone /\ \E p \in Procs : Acquire(p)
    \/ NoneDone /\ \E p \in Procs : LockTimeout(p)
    \/ NoneDone /\ \E p \in Procs : Commit(p)
    \/ \E p \in Procs : Collect(p)
    \/ \E t \in syncPending : SyncAttempt(t, TRUE)

SpecMirror ==
    /\ InitSync
    /\ [][NextMirror]_vars
    /\ WF_vars(\E t \in syncPending : SyncAttempt(t, TRUE))

\* The dashboard of one user beside the bookings another user makes through
\* the second handler.  What the user does is never forced; a request sent is
\* served and answered, and its answer is handled.
ClientRequests == {CreateRequest(ClientUser, "r1", t) : t \in ValidRanges}

OtherRequests ==
    {CreateRequest("u2", "r1", t) : t \in ValidRanges}
    \cup {CancelRequest("u2", i) : i \in 1..MaxRes}

ServerStep ==
    \/ RequestArrives
    \/ \E p \in Procs : Acquire(p) \/ LockTimeout(p) \/ Commit(p)
    \/ handleSubmitSettled
    \/ ~client.loading /\ Collect(ClientHandler)

NextClient ==
    \/ handleDatesSet
    \/ handleDateSelect
    \/ onClose
    \/ \E q \in ClientRequests : HasRoom(q) /\ handleSubmit(q)
    \/ \E p \in Procs \ {ClientHandler}, q \in OtherRequests : HasRoom(q) /\ Submit(p, q)
    \/ \E p \in Procs \ {ClientHandler} : Collect(p)
    \/ ServerStep

SpecClient == Init /\ [][NextClient]_vars /\ WF_vars(ServerStep)

\* The single-page app from the load of its document, with any tokens in
\* localStorage.  What the user does is never forced; the effect on mount
\* runs and every request sent is answered.
InitAuth ==
    /\ reservations = <<>>
    /\ now = 0
    /\ calendarEnabled = FALSE
    /\ layers = {"lock", "exclude"}
    /\ pc = [p \in Procs |-> "idle"]
    /\ req = [p \in Procs |-> NoRequest]
    /\ result = [p \in Procs |-> NoResult]
    /\ held = [p \in Procs |-> {}]
    /\ syncPending = {}
    /\ calendar = {}
    /\ view = NoView
    /\ client = ClientStart
    /\ modal = ModalStart
    /\ \E access, refresh \in BOOLEAN, p \in Paths :
          auth = [AuthStart(access, refresh) EXCEPT !.path = p]

NextAuth ==
    \/ Mount
    \/ \E c \in CallNames, status \in Statuses : Respond(c, status)
    \/ \E c \in CallNames, ok \in BOOLEAN : RefreshResponds(c, ok)
    \/ login
    \/ logout
    \/ PageRequest
    \/ RouteNavigates
    \/ \E p \in Paths : Go(p)
    \/ Reload

SpecAuth ==
    /\ InitAuth
    /\ [][NextAuth]_vars
    /\ WF_vars(Mount)
    /\ \A c \in CallNames : WF_vars(\E status \in Statuses : Respond(c, status))
    /\ \A c \in CallNames : WF_vars(\E ok \in BOOLEAN : RefreshResponds(c, ok))

\* The modal over a table of at most one earlier reservation of the user,
\* while time passes.  What the user does is never forced; the requests the
\* modal sends are served, answered and handled.
ModalServerStep ==
    \/ ModalRequestArrives
    \/ Commit(ClientHandler)
    \/ \E closes \in BOOLEAN : ModalSettled(closes)
    \/ \E ok \in BOOLEAN : ReservationLoaded(ok)

NextModal ==
    \/ \E i \in {NULL} \cup 1..MaxRes : OpenModal(i)
    \/ \E t \in ValidRanges : ModalSubmit(t)
    \/ ModalDelete
    \/ CloseModal
    \/ Tick
    \/ ModalServerStep

SpecModal == InitRace /\ [][NextModal]_vars /\ WF_vars(ModalServerStep)

\* ------------------------------------------------- properties
\* C1: at every instant no two distinct active reservations of the same
\* resource have overlapping time ranges, whatever create, update and cancel
\* requests the concurrent handlers have served.
MutualExclusion ==
    \A i, j \in Ids :
        (/\ i # j
         /\ reservations[i].status = "active"
         /\ reservations[j].status = "active"
         /\ reservations[i].server_resource_id = reservations[j].server_resource_id)
        => ~(/\ reservations[i].start_at < reservations[j].end_at
             /\ reservations[j].start_at < reservations[i].end_at)

\* two active reservations share a resource and a request that would have
\* overlapped one of them has been refused
MutualExclusionWitness ==
    /\ \E i, j \in Ids :
          /\ i # j
          /\ reservations[i].status = "active"
          /\ reservations[j].status = "active"
          /\ reservations[i].server_resource_id = reservations[j].server_resource_id
    /\ \E p \in Procs : pc[p] = "done" /\ result[p].outcome = "Conflict"

\* the rows the race started with: those no racing create has inserted
RaceInitial ==
    Ids \ {result[p].id : p \in {x \in Procs : result[x].outcome = "ok"}}

\* every handler has answered a create, all for one resource, with pairwise
\* overlapping ranges, and no reservation in their way when the race began
RaceCase ==
    /\ \A p \in Procs : pc[p] = "done" /\ req[p].op = "create"
    /\ \A p, x \in Procs :
          /\ req[p].server_resource_id = req[x].server_resource_id
          /\ req[p].start_at < req[x].end_at
          /\ req[x].start_at < req[p].end_at
    /\ \A p \in Procs : \A i \in RaceInitial :
          ~(/\ reservations[i].status = "active"
            /\ reservations[i].server_resource_id = req[p].server_resource_id
            /\ reservations[i].start_at < req[p].end_at
            /\ req[p].start_at < reservations[i].end_at)

RaceWinners == {p \in Procs : result[p].outcome = "ok"}

\* C2 (as stated): of the concurrent creates for one resource with pairwise
\* overlapping ranges and no conflicting reservation, exactly one succeeds
\* and all others fail with Conflict.
AtomicCheckAndWriteAsStated ==
    RaceCase =>
        /\ Cardinality(RaceWinners) = 1
        /\ \A p \in Procs \ RaceWinners : result[p].outcome = "Conflict"

\* C2: of the concurrent creates for one resource with pairwise overlapping
\* ranges and no conflicting reservation, exactly one succeeds; every other
\* one fails, with Conflict or, when its bounded wait for the resource's
\* locked rows expires, with Busy.
AtomicCheckAndWrite ==
    RaceCase =>
        /\ Cardinality(RaceWinners) = 1
        /\ \A p \in Procs \ RaceWinners : result[p].outcome \in {"Conflict", "Busy"}

\* a race has ended with one winner and a loser refused with Conflict
AtomicCheckAndWriteWitness ==
    /\ RaceCase
    /\ Cardinality(RaceWinners) = 1
    /\ \E p \in Procs : result[p].outcome = "Conflict"

\* C3: a create for an active resource no other handler is working on, with
\* no conflicting reservation on that resource, never waits for another
\* handler and succeeds, whatever ranges the others book on other resources.
ResourceIndependence ==
    \A p \in Procs :
        (/\ req[p].op = "create"
         /\ \A x \in Procs \ {p} :
               req[x].server_resource_id # req[p].server_resource_id
         /\ \A i \in RaceInitial :
               ~(/\ reservations[i].status = "active"
                 /\ reservations[i].server_resource_id = req[p].server_resource_id
                 /\ reservations[i].start_at < req[p].end_at
                 /\ req[p].start_at < reservations[i].end_at))
        => /\ pc[p] # "acquire"
           /\ pc[p] = "done" => result[p].outcome = "ok"

\* two creates with overlapping ranges on two different resources have both
\* succeeded
ResourceIndependenceWitness ==
    \E p, x \in Procs :
        /\ pc[p] = "done" /\ pc[x] = "done"
        /\ result[p].outcome = "ok" /\ result[x].outcome = "ok"
        /\ req[p].server_resource_id # req[x].server_resource_id
        /\ req[p].start_at < req[x].end_at
        /\ req[x].start_at < req[p].end_at

\* C4: a create for an active resource with a valid range is refused with
\* Conflict exactly when some active reservation of that resource satisfies
\* a.start < b.end and b.start < a.end, and succeeds otherwise; a range that
\* starts at the instant another one ends is therefore not a conflict, and
\* one that starts an instant earlier is.
ExclusionBoundary ==
    \A p \in Procs :
        (/\ pc[p] = "done"
         /\ req[p].op = "create"
         /\ req[p].end_at > req[p].start_at
         /\ req[p].server_resource_id \in Resources
         /\ IsActive(req[p].server_resource_id))
        => /\ result[p].outcome \in {"ok", "Conflict"}
           /\ result[p].outcome = "Conflict" <=>
                 \E i \in Ids \ {result[p].id} :
                     /\ reservations[i].status = "active"
                     /\ reservations[i].server_resource_id = req[p].server_resource_id
                     /\ reservations[i].start_at < req[p].end_at
                     /\ req[p].start_at < reservations[i].end_at

\* a create has succeeded whose range starts at the very instant an active
\* reservation of the same resource ends
ExclusionBoundaryWitness ==
    \E p \in Procs :
        /\ pc[p] = "done"
        /\ req[p].op = "create"
        /\ result[p].outcome = "ok"
        /\ \E i \in Ids \ {result[p].id} :
              /\ reservations[i].status = "active"
              /\ reservations[i].server_resource_id = req[p].server_resource_id
              /\ reservations[i].end_at = req[p].start_at

\* C5: a cancel of a reservation that is already cancelled answers at once
\* with success and changes no field of any reservation, and schedules
\* nothing, however often it is repeated and whoever sends it.
IdempotentCancel ==
    [][\A p \in Procs :
          (/\ pc[p] = "idle"
           /\ pc'[p] # "idle"
           /\ req'[p].op = "cancel"
           /\ req'[p].id \in Ids
           /\ reservations[req'[p].id].status = "cancelled")
          => /\ pc'[p] = "done"
             /\ result'[p].outcome = "ok"
             /\ result'[p].id = req'[p].id
             /\ reservations' = reservations
             /\ syncPending' = syncPending]_vars

\* a cancel has been answered with success that only the repeat path can
\* answer so: the reservation is cancelled and the sender could not have
\* cancelled it
IdempotentCancelWitness ==
    \E p \in Procs :
        /\ pc[p] = "done"
        /\ req[p].op = "cancel"
        /\ result[p].outcome = "ok"
        /\ reservations[req[p].id].status = "cancelled"
        /\ reservations[req[p].id].user_id # req[p].user_id
        /\ Role(req[p].user_id) # "admin"

\* C6: an update by the owner of an active reservation that has not elapsed,
\* asking for the range the reservation already has, passes the conflict
\* check, is committed with success and leaves the table as it was.
UpdateSelfExclusion ==
    [][\A p \in Procs :
          /\ (/\ pc[p] = "idle"
              /\ pc'[p] # "idle"
              /\ req'[p].op = "update"
              /\ req'[p].id \in Ids
              /\ reservations[req'[p].id].user_id = req'[p].user_id
              /\ reservations[req'[p].id].status = "active"
              /\ reservations[req'[p].id].end_at > now
              /\ reservations[req'[p].id].start_at = req'[p].start_at
              /\ reservations[req'[p].id].end_at = req'[p].end_at)
             => pc'[p] = "write"
          /\ (/\ pc[p] = "write"
              /\ pc'[p] = "done"
              /\ req[p].op = "update"
              /\ reservations[req[p].id].start_at = req[p].start_at
              /\ reservations[req[p].id].end_at = req[p].end_at)
             => /\ result'[p].outcome = "ok"
                /\ result'[p].id = req[p].id
                /\ reservations' = reservations]_vars

\* an owner's update to the range its reservation already has is past the
\* conflict check with its own row in the table
UpdateSelfExclusionWitness ==
    \E p \in Procs :
        /\ pc[p] = "write"
        /\ req[p].op = "update"
        /\ reservations[req[p].id].user_id = req[p].user_id
        /\ reservations[req[p].id].status = "active"
        /\ reservations[req[p].id].start_at = req[p].start_at
        /\ reservations[req[p].id].end_at = req[p].end_at

\* C7: a failed sync attempt, for a create, an update or a cancel, changes
\* no reservation (nothing is rolled back, google_event_id stays unset) and
\* changes no response a handler has produced or is producing.
SyncIsolation ==
    [][\A t \in syncPending :
          SyncAttempt(t, FALSE)
          => /\ reservations' = reservations
             /\ result' = result
             /\ pc' = pc
             /\ req' = req]_vars

\* the event creation for a committed booking has been tried and has failed:
\* the reservation is active, has no google_event_id and no attempt is left
SyncIsolationWitness ==
    /\ calendarEnabled
    /\ \E i \in Ids :
          /\ reservations[i].status = "active"
          /\ reservations[i].google_event_id = NULL
          /\ \A t \in syncPending : t.id # i

CancelOwnership ==
    [][\A p \in Procs :
          /\ (/\ pc[p] = "idle"
              /\ pc'[p] # "idle"
              /\ req'[p].op = "cancel"
              /\ req'[p].id \in Ids
              /\ reservations[req'[p].id].status = "active"
              /\ reservations[req'[p].id].end_at > now)
             => IF \/ reservations[req'[p].id].user_id = req'[p].user_id
                   \/ Role(req'[p].user_id) = "admin"
                THEN pc'[p] = "write" /\ reservations' = reservations
                ELSE /\ pc'[p] = "done"
                     /\ result'[p].outcome = "NotOwner"
                     /\ reservations' = reservations
          /\ (pc[p] = "write" /\ pc'[p] = "done" /\ req[p].op = "cancel")
             => /\ result'[p].outcome = "ok"
                /\ result'[p].id = req[p].id
                /\ reservations' =
                      [reservations EXCEPT ![req[p].id].status = "cancelled"]]_vars

\* a user who is neither owner nor administrator has been refused the cancel
\* of an active reservation that has not elapsed
CancelOwnershipWitness ==
    \E p \in Procs :
        /\ pc[p] = "done"
        /\ req[p].op = "cancel"
        /\ result[p].outcome = "NotOwner"
        /\ reservations[req[p].id].status = "active"
        /\ reservations[req[p].id].end_at > now
        /\ reservations[req[p].id].user_id # req[p].user_id

\* C11: an update of an existing reservation to a valid range, sent by a
\* user who is neither its owner nor an administrator, fails at once with
\* NotOwner and leaves the table unchanged; and every update that is
\* committed with success was sent by the owner or an administrator.
UpdateOwnership ==
    [][\A p \in Procs :
          /\ (/\ pc[p] = "idle"
              /\ pc'[p] # "idle"
              /\ req'[p].op = "update"
              /\ req'[p].end_at > req'[p].start_at
              /\ req'[p].id \in Ids
              /\ reservations[req'[p].id].user_id # req'[p].user_id
              /\ Role(req'[p].user_id) # "admin")
             => /\ pc'[p] = "done"
                /\ result'[p].outcome = "NotOwner"
                /\ reservations' = reservations
          /\ (/\ pc[p] = "write"
              /\ pc'[p] = "done"
              /\ req[p].op = "update"
              /\ result'[p].outcome = "ok")
             => \/ reservations[req[p].id].user_id = req[p].user_id
                \/ Role(req[p].user_id) = "admin"]_vars

\* a user who is neither owner nor administrator has been refused the update
\* of a reservation, which still has a range other than the one asked for
UpdateOwnershipWitness ==
    \E p \in Procs :
        /\ pc[p] = "done"
        /\ req[p].op = "update"
        /\ result[p].outcome = "NotOwner"
        /\ reservations[req[p].id].user_id # req[p].user_id
        /\ Role(req[p].user_id) # "admin"
        /\ reservations[req[p].id].start_at # req[p].start_at

Lifecycle ==
    [][/\ Len(reservations') >= Len(reservations)
       /\ \A i \in Ids :
             /\ reservations'[i].user_id = reservations[i].user_id
             /\ reservations'[i].server_resource_id = reservations[i].server_resource_id
             /\ reservations[i].status = "cancelled"
                => reservations'[i].status = "cancelled"
       /\ Len(reservations') > Len(reservations)
          => /\ Len(reservations') = Len(reservations) + 1
             /\ reservations'[Len(reservations')].status = "active"
             /\ \E p \in Procs :
                   /\ pc[p] = "write"
                   /\ pc'[p] = "done"
                   /\ req[p].op = "create"
                   /\ result'[p].outcome = "ok"
                   /\ result'[p].id = Len(reservations')]_vars

\* a create has just added its row to a table that still holds an earlier,
\* cancelled reservation
LifecycleWitness ==
    \E p \in Procs :
        /\ pc[p] = "done"
        /\ req[p].op = "create"
        /\ result[p].outcome = "ok"
        /\ result[p].id = Len(reservations)
        /\ \E i \in Ids : i < result[p].id /\ reservations[i].status = "cancelled"

\* C14: every row of the table has end_at > start_at in every reachable
\* state, and a create or an update that asks for end_at <= start_at fails at
\* once with InvalidRange and leaves the table unchanged.
RangeValidity ==
    /\ [](\A i \in Ids : reservations[i].end_at > reservations[i].start_at)
    /\ [][\A p \in Procs :
             (/\ pc[p] = "idle"
              /\ pc'[p] # "idle"
              /\ req'[p].op \in {"create", "update"}
              /\ req'[p].end_at <= req'[p].start_at)
             => /\ pc'[p] = "done"
                /\ result'[p].outcome = "InvalidRange"
                /\ reservations' = reservations]_vars

\* an update asking for an empty range has been refused with InvalidRange
\* while the table holds reservations
RangeValidityWitness ==
    /\ reservations # <<>>
    /\ \E p \in Procs :
          /\ pc[p] = "done"
          /\ req[p].op = "update"
          /\ req[p].end_at <= req[p].start_at
          /\ result[p].outcome = "InvalidRange"

\* C15: a create with a valid range for the resource id that names no
\* resource fails at once with ResourceNotFound, and for the resource whose
\* is_active flag is false with ResourceInactive, both leaving the table
\* unchanged; every row of the table is for an existing, active resource.
ResourcePrecondition ==
    /\ [](\A i \in Ids : reservations[i].server_resource_id \in {"r1", "r2"})
    /\ [][\A p \in Procs :
             (/\ pc[p] = "idle"
              /\ pc'[p] # "idle"
              /\ req'[p].op = "create"
              /\ req'[p].end_at > req'[p].start_at
              /\ req'[p].server_resource_id \notin {"r1", "r2"})
             => /\ pc'[p] = "done"
                /\ result'[p].outcome =
                      IF req'[p].server_resource_id = "r3"
                      THEN "ResourceInactive" ELSE "ResourceNotFound"
                /\ reservations' = reservations]_vars

\* a create for the inactive resource has been refused with ResourceInactive
ResourcePreconditionWitness ==
    \E p \in Procs :
        /\ pc[p] = "done"
        /\ req[p].op = "create"
        /\ req[p].server_resource_id = "r3"
        /\ result[p].outcome = "ResourceInactive"

\* C16: with the row locks out of force, no two active reservations of one
\* resource ever overlap, and the write of a create that passed its conflict
\* check is refused by the table exactly when an active reservation of the
\* resource overlaps it by then; the refused request answers Conflict, as a
\* conflict found by the check does, and the table is unchanged.
StorageLayerAlone ==
    /\ [](\A i, j \in Ids :
            (/\ i # j
             /\ reservations[i].status = "active"
             /\ reservations[j].status = "active"
             /\ reservations[i].server_resource_id = reservations[j].server_resource_id)
            => \/ reservations[i].end_at <= reservations[j].start_at
               \/ reservations[j].end_at <= reservations[i].start_at)
    /\ [][\A p \in Procs :
             (pc[p] = "write" /\ pc'[p] = "done" /\ req[p].op = "create")
             => IF \E i \in Ids :
                      /\ reservations[i].status = "active"
                      /\ reservations[i].server_resource_id = req[p].server_resource_id
                      /\ reservations[i].start_at < req[p].end_at
                      /\ req[p].start_at < reservations[i].end_at
                THEN /\ result'[p].outcome = "Conflict"
                     /\ reservations' = reservations
                ELSE /\ result'[p].outcome = "ok"
                     /\ Len(reservations') = Len(reservations) + 1]_vars

\* both racing creates have passed the conflict check: one has committed its
\* reservation, and the other, whose range overlaps it, is at its write
StorageLayerAloneWitness ==
    /\ "lock" \notin layers
    /\ \E p, x \in Procs :
          /\ pc[p] = "write" /\ req[p].op = "create"
          /\ pc[x] = "done" /\ result[x].outcome = "ok"
          /\ reservations[result[x].id].status = "active"
          /\ req[p].server_resource_id = req[x].server_resource_id
          /\ req[p].start_at < req[x].end_at
          /\ req[x].start_at < req[p].end_at

\* C17: with the exclusion constraint out of force and the row locks in
\* force, no two distinct active reservations of one resource overlap, in
\* every interleaving of the racing creates and for every table the race
\* starts from, the one with no active reservation of the resource included.
ApplicationLayerAlone ==
    "exclude" \notin layers =>
        \A i \in Ids : \A j \in Ids \ {i} :
            (/\ reservations[i].status = "active"
             /\ reservations[j].status = "active"
             /\ reservations[i].server_resource_id = reservations[j].server_resource_id)
            => ~(/\ reservations[i].start_at < reservations[j].end_at
                 /\ reservations[j].start_at < reservations[i].end_at)

\* the row whose write corresponds to a candidate: a new active row, or the
\* excluded reservation moved to the candidate's resource and range
CandidateId(x) == IF x = NULL THEN Len(reservations) + 1 ELSE x

CandidateRow(r, t, x) ==
    IF x = NULL
    THEN [user_id |-> "u1", server_resource_id |-> r,
          start_at |-> t[1], end_at |-> t[2],
          status |-> "active", google_event_id |-> NULL]
    ELSE [reservations[x] EXCEPT !.server_resource_id = r,
                                 !.start_at = t[1], !.end_at = t[2]]

ResourceScopedExclusivity ==
    /\ \A p \in Procs : \A x \in Procs \ {p} :
          ~(/\ pc[p] = "write"
            /\ pc[x] = "write"
            /\ TargetResource(req[p]) = TargetResource(req[x]))
    /\ \A p \in Procs :
          pc[p] = "acquire"
          => \E x \in Procs \ {p} :
                /\ pc[x] = "write"
                /\ TargetResource(req[x]) = TargetResource(req[p])

\* C20: a create that has acquired exclusive access and passed its conflict
\* check takes effect: between its check and its write no other transaction
\* changes the reservations of its resource, and its write is committed with
\* success; the create that acquires second is the one that gets Conflict.
AcquisitionOrder ==
    [][\A p \in Procs :
          /\ (pc[p] = "write" /\ pc'[p] = "write" /\ req[p].op = "create")
             => \A i \in 1..Len(reservations') :
                   reservations'[i].server_resource_id = req[p].server_resource_id
                   => i \in Ids /\ reservations'[i] = reservations[i]
          /\ (pc[p] = "write" /\ pc'[p] = "done" /\ req[p].op = "create")
             => result'[p].outcome = "ok"]_vars

\* C21: a handler whose wait for row locks ends while they are still held
\* answers Busy and leaves the table and every lock as they were, Busy is
\* answered in no other way, and every request a handler has taken on is
\* eventually answered.
BoundedWait ==
    /\ [][\A p \in Procs :
             /\ (Blocked(p) /\ pc'[p] = "done")
                => /\ result'[p].outcome = "Busy"
                   /\ reservations' = reservations
                   /\ held' = held
             /\ (pc[p] # "done" /\ pc'[p] = "done" /\ result'[p].outcome = "Busy")
                => Blocked(p)]_vars
    /\ \A p \in Procs : (pc[p] \in {"acquire", "write"}) ~> (pc[p] = "done")

\* a handler has answered Busy while the transaction it waited for is still
\* at its write
BoundedWaitWitness ==
    \E p \in Procs : \E x \in Procs \ {p} :
        /\ pc[p] = "done"
        /\ result[p].outcome = "Busy"
        /\ pc[x] = "write"
        /\ held[x] # {}

\* the new range of update q overlaps an active reservation of the same
\* resource other than the updated one
UpdateOverlap(table, q) ==
    \E j \in 1..Len(table) :
        /\ j # q.id
        /\ table[j].status = "active"
        /\ table[j].server_resource_id = table[q.id].server_resource_id
        /\ q.start_at < table[j].end_at
        /\ table[j].start_at < q.end_at

\* the answers of the checks an update passes before its conflict check
UpdateRefusedEarly == {"InvalidRange", "NotFound", "NotOwner", "PastReservation", "Busy"}

QueryAnswered == view' # view

\* C23: an availability query is answered in every state, whatever row locks
\* are held; its answer holds stored rows of the committed table only, so
\* neither the row nor the new values of a transaction still at its write; and
\* answering it changes neither the table nor any lock nor any handler.
CommittedReads ==
    /\ [](/\ ENABLED QueryStatus
          /\ \A rs \in QueryResources, w \in QueryWindows :
                ENABLED QueryTimeline(rs, w[1], w[2]))
    /\ [][QueryAnswered =>
            /\ \A e \in view'.reservations :
                  /\ e.id \in 1..Len(reservations)
                  /\ e.row = reservations[e.id]
            /\ \A p \in Procs :
                  pc[p] = "write" /\ req[p].op = "create"
                  => \A e \in view'.reservations : e.id # Len(reservations) + 1
            /\ reservations' = reservations
            /\ held' = held
            /\ pc' = pc
            /\ result' = result]_vars

\* the timeline has listed a reservation whose row was locked, at that
\* moment and still, by an update at its write that changes the range listed
CommittedReadsWitness ==
    \E p \in Procs :
        /\ pc[p] = "write"
        /\ req[p].op = "update"
        /\ p \in view.during
        /\ req[p].id \in held[p]
        /\ view.kind = "timeline"
        /\ \E e \in view.reservations :
              /\ e.id = req[p].id
              /\ e.row = reservations[e.id]
              /\ <<e.row.start_at, e.row.end_at>> # <<req[p].start_at, req[p].end_at>>

\* C24: the timeline answered for a window is exactly the set of active
\* reservations of the asked servers whose range intersects the window; the
\* current reservation answered for a server is the active reservation whose
\* range contains now, or none; and in every state at most one active
\* reservation of a server contains now.
AvailabilityProjections ==
    /\ [](\A r \in Resources :
            \A i, j \in 1..Len(reservations) :
                (/\ reservations[i].status = "active"
                 /\ reservations[j].status = "active"
                 /\ reservations[i].server_resource_id = r
                 /\ reservations[j].server_resource_id = r
                 /\ reservations[i].start_at <= now /\ now < reservations[i].end_at
                 /\ reservations[j].start_at <= now /\ now < reservations[j].end_at)
                => i = j)
    /\ [][QueryAnswered =>
            /\ view'.kind = "timeline"
               => {e.id : e \in view'.reservations} =
                     {i \in 1..Len(reservations) :
                        /\ reservations[i].status = "active"
                        /\ reservations[i].server_resource_id \in view'.server_resource_ids
                        /\ reservations[i].start_at < view'.end_date
                        /\ view'.start_date < reservations[i].end_at}
            /\ view'.kind = "status"
               => \A r \in DOMAIN view'.current :
                     \A i \in 1..Len(reservations) :
                        (/\ reservations[i].status = "active"
                         /\ reservations[i].server_resource_id = r
                         /\ reservations[i].start_at <= now
                         /\ now < reservations[i].end_at)
                        <=> view'.current[r] = i]_vars

\* a timeline that left out a cancelled reservation inside its window and
\* listed an active one
AvailabilityProjectionsWitness ==
    /\ view.kind = "timeline"
    /\ view.reservations # {}
    /\ \E i \in 1..Len(reservations) :
          /\ reservations[i].status = "cancelled"
          /\ reservations[i].server_resource_id \in view.server_resource_ids
          /\ reservations[i].start_at < view.end_date
          /\ view.start_date < reservations[i].end_at
          /\ \A e \in view.reservations : e.id # i

\* the outcomes a booking operation may end in
TypedOutcomes ==
    {"ok", "InvalidRange", "ResourceNotFound", "ResourceInactive", "Conflict",
     "NotOwner", "PastReservation", "Busy", "NotFound"}

\* C25: every create, update and cancel ends in one outcome of the typed set;
\* an update with a valid range, or a cancel, of an id the table does not hold
\* ends in NotFound; and a request that ends in a failure leaves the table,
\* every row and every field of it, as it was.
TypedFailures ==
    [][\A p \in Procs :
          (/\ pc[p] # "done"
           /\ pc'[p] = "done"
           /\ req'[p].op \in {"create", "update", "cancel"})
          => /\ result'[p].outcome \in TypedOutcomes
             /\ (/\ req'[p].op \in {"update", "cancel"}
                 /\ req'[p].id \notin 1..Len(reservations)
                 /\ req'[p].op = "update" => req'[p].end_at > req'[p].start_at)
                => result'[p].outcome = "NotFound"
             /\ result'[p].outcome # "ok" => reservations' = reservations]_vars

\* with reservations in the table, an update with a valid range was told
\* that its id is unknown
TypedFailuresWitness ==
    \E p \in Procs :
        /\ pc[p] = "done"
        /\ req[p].op = "update"
        /\ req[p].end_at > req[p].start_at
        /\ req[p].id \notin 1..Len(reservations)
        /\ result[p].outcome = "NotFound"
        /\ Len(reservations) > 0

\* no booking operation is under way
NoBookingUnderWay == \A p \in Procs : pc[p] = "idle"

\* C26: when every sync attempt succeeds and from some moment on no booking
\* operation is under way, then from some moment on the calendar holds an
\* event for a reservation exactly when the reservation is active.
CalendarEventualConsistency ==
    <>[]NoBookingUnderWay
    => <>[](\A i \in 1..Len(reservations) :
               i \in calendar <=> reservations[i].status = "active")

\* C27: once a request of the client has been answered with a conflict, the
\* client comes to show the reservations that are committed.
RefetchAfterConflict ==
    (client.error = "Conflict")
    ~> (client.events =
           {i \in 1..Len(reservations) : reservations[i].status = "active"})

\* C28: a handler holds row locks only while its transaction is between its
\* conflict check and its commit; it keeps them unchanged until the step that
\* ends the transaction; when that step answers success the row has been
\* written in the same step; and a request that ends on the conflict path, or
\* with any other outcome, holds no lock.
LockRelease ==
    /\ [](\A p \in Procs : pc[p] # "write" => held[p] = {})
    /\ [][\A p \in Procs :
             /\ (pc[p] = "write" /\ pc'[p] = "write") => held'[p] = held[p]
             /\ (held[p] # {} /\ held'[p] = {})
                => /\ pc[p] = "write"
                   /\ pc'[p] = "done"
                   /\ result'[p].outcome \in {"ok", "Conflict"}
                   /\ result'[p].outcome = "ok"
                      => LET row == reservations'[result'[p].id] IN
                         /\ req[p].op = "create"
                            => /\ result'[p].id = Len(reservations) + 1
                               /\ row.status = "active"
                               /\ row.start_at = req[p].start_at
                               /\ row.end_at = req[p].end_at
                         /\ req[p].op = "update"
                            => /\ row.start_at = req[p].start_at
                               /\ row.end_at = req[p].end_at
                         /\ req[p].op = "cancel" => row.status = "cancelled"
                   /\ result'[p].outcome = "Conflict" => reservations' = reservations
             /\ (pc[p] # "done" /\ pc'[p] = "done") => held'[p] = {}]_vars

\* a create that locked the active rows of its server has been committed
\* beside them and holds nothing, and so does a create refused for a conflict
LockReleaseWitness ==
    \E p \in Procs :
        /\ pc[p] = "done"
        /\ req[p].op = "create"
        /\ held[p] = {}
        /\ \/ /\ result[p].outcome = "ok"
              /\ ActiveRows(reservations, req[p].server_resource_id) \ {result[p].id} # {}
           \/ /\ result[p].outcome = "Conflict"
              /\ ActiveRows(reservations, req[p].server_resource_id) # {}

\* row j of the table overlaps the range that create q asks for on q's server
OverlapsCreate(table, j, q) ==
    /\ table[j].server_resource_id = q.server_resource_id
    /\ q.start_at < table[j].end_at
    /\ table[j].start_at < q.end_at

\* C29: a create with a valid range on an active server succeeds when no
\* active reservation of the server overlaps it, however many cancelled ones
\* do, and is refused with Conflict when an active reservation overlaps it,
\* whether that reservation has ended, is in progress or is still to start.
CancelledNeverBlock ==
    [][\A p \in Procs :
          (/\ pc[p] # "done"
           /\ pc'[p] = "done"
           /\ req'[p].op = "create"
           /\ result'[p].outcome \notin
                 {"InvalidRange", "ResourceNotFound", "ResourceInactive", "Busy"})
          => LET q == req'[p]
                 blockers == {j \in 1..Len(reservations) :
                                 /\ reservations[j].status = "active"
                                 /\ OverlapsCreate(reservations, j, q)}
             IN /\ blockers = {}
                   => /\ result'[p].outcome = "ok"
                      /\ Len(reservations') = Len(reservations) + 1
                      /\ reservations'[Len(reservations')].status = "active"
                /\ blockers # {}
                   => /\ result'[p].outcome = "Conflict"
                      /\ reservations' = reservations]_vars

\* a create has succeeded over the range of a cancelled reservation of the
\* same server
CancelledNeverBlockWitness ==
    \E p \in Procs :
        /\ pc[p] = "done"
        /\ req[p].op = "create"
        /\ result[p].outcome = "ok"
        /\ \E j \in 1..Len(reservations) :
              /\ j # result[p].id
              /\ reservations[j].status = "cancelled"
              /\ OverlapsCreate(reservations, j, req[p])

\* the table without the calendar correlation ids
WithoutEventIds(table) ==
    [i \in 1..Len(table) |-> [table[i] EXCEPT !.google_event_id = NULL]]

\* a booking transaction of some handler commits in this step
CoordinatorCommits ==
    \E p \in Procs :
        /\ pc[p] = "write"
        /\ pc'[p] = "done"
        /\ result'[p].outcome = "ok"
        /\ req[p].op \in {"create", "update", "cancel"}

\* a cancel answered with success in this step leaves the table as it was but
\* for the status of its target, which is cancelled
CancelChangesStatusOnly ==
    \A p \in Procs :
        (/\ pc[p] # "done"
         /\ pc'[p] = "done"
         /\ req'[p].op = "cancel"
         /\ result'[p].outcome = "ok")
        => reservations' = [reservations EXCEPT ![req'[p].id].status = "cancelled"]

CallSettles(c) ==
    /\ auth.calls[c].stage # "idle"
    /\ auth'.calls[c].stage = "idle"
    /\ auth'.calls[c].last # "none"

\* C31: a request is sent at most twice, the second time only after one
\* refresh for it, and a request in flight always settles; a refresh is
\* asked for only on the 401 of a request not yet retried and with a refresh
\* token stored; such a 401 without a refresh token sets the location to
\* /login and rejects; a failed refresh removes both tokens, sets the
\* location to /login and rejects; and the 401 of a retried request rejects.
TokenRefreshRetry ==
    /\ [](\A c \in CallNames :
             /\ auth.calls[c].sends <= 2
             /\ auth.calls[c].sends = 2 => auth.calls[c]._retry
             /\ auth.calls[c].stage = "refreshing"
                => auth.calls[c]._retry /\ auth.calls[c].sends = 1)
    /\ [][\A c \in CallNames :
             /\ (auth.calls[c].stage = "sent" /\ auth'.calls[c].stage = "refreshing")
                => /\ ~auth.calls[c]._retry
                   /\ auth.refresh_token
                   /\ auth'.calls[c].status = 401
             /\ (CallSettles(c) /\ auth.calls[c].stage = "sent"
                 /\ auth'.calls[c].status = 401 /\ ~auth.calls[c]._retry)
                => /\ ~auth.refresh_token
                   /\ auth'.redirect
                   /\ auth'.calls[c].last = "rejected"
             /\ (CallSettles(c) /\ auth.calls[c].stage = "refreshing")
                => /\ ~auth'.access_token
                   /\ ~auth'.refresh_token
                   /\ auth'.redirect
                   /\ auth'.calls[c].last = "rejected"
             /\ (auth.calls[c].stage = "sent" /\ auth.calls[c]._retry
                 /\ auth'.calls[c].status = 401 /\ auth'.calls[c] # auth.calls[c])
                => /\ CallSettles(c)
                   /\ auth'.calls[c].last = "rejected"]_vars
    /\ \A c \in CallNames :
          (auth.calls[c].stage # "idle") ~> (auth.calls[c].stage = "idle")

\* a request sent again after a refresh was answered 401 once more and was
\* rejected without another refresh
TokenRefreshRetryWitness ==
    \E c \in CallNames :
        /\ auth.calls[c].stage = "idle"
        /\ auth.calls[c].sends = 2
        /\ auth.calls[c]._retry
        /\ auth.calls[c].status = 401
        /\ auth.calls[c].last = "rejected"
        /\ auth.access_token
        /\ auth.refresh_token

\* C32: a protected page is on the screen only while loading is false and
\* a user is set, a public page only while loading is false and no user is
\* set; and logout leaves no user, neither token stored and no protected page
\* on the screen.
RouteGuarding ==
    /\ [](/\ Rendered(auth) \in ProtectedPaths
             => ~auth.loading /\ auth.user # NoUser
          /\ Rendered(auth) \in PublicPaths
             => ~auth.loading /\ auth.user = NoUser)
    /\ [][(auth.mounted /\ auth'.mounted /\ auth.user # NoUser /\ auth'.user = NoUser)
          => /\ ~auth'.access_token
             /\ ~auth'.refresh_token
             /\ Rendered(auth') \notin ProtectedPaths]_vars

\* the user whom /auth/me had named has logged out on a protected path:
\* no user, no token, and the route navigates away
RouteGuardingWitness ==
    /\ auth.mounted
    /\ \E c \in {"me", "loginMe"} : auth.calls[c].last = "resolved"
    /\ auth.user = NoUser
    /\ ~auth.access_token
    /\ ~auth.refresh_token
    /\ auth.path \in ProtectedPaths
    /\ Rendered(auth) = "Navigate:/login"

\* C33: loading becomes false after every load of the document: at once
\* when no access token is stored, else when the /auth/me sent on mount
\* settles; when that call succeeds the user is set, when it fails both
\* tokens are removed and the user stays null; and a user is set only by a
\* /auth/me that has succeeded.
AuthBootstrap ==
    /\ auth.loading ~> ~auth.loading
    /\ [][/\ (~auth.mounted /\ auth'.mounted)
             => IF auth.access_token
                THEN auth'.loading /\ auth'.calls["me"].stage = "sent"
                ELSE ~auth'.loading /\ auth'.calls = auth.calls
          /\ CallSettles("me")
             => /\ ~auth'.loading
                /\ IF auth'.calls["me"].last = "resolved"
                   THEN auth'.user # NoUser
                   ELSE /\ ~auth'.access_token
                        /\ ~auth'.refresh_token
                        /\ auth.user = NoUser
                        /\ auth'.user = NoUser
          /\ (auth.user = NoUser /\ auth'.user # NoUser)
             => \E c \in {"me", "loginMe"} :
                   /\ CallSettles(c)
                   /\ auth'.calls[c].status = 200
                   /\ auth'.calls[c].last = "resolved"]_vars

\* the /auth/me sent on mount was rejected with a 401: loading is false, no
\* user is set and no token is stored
AuthBootstrapWitness ==
    /\ auth.mounted
    /\ auth.calls["me"].last = "rejected"
    /\ auth.calls["me"].status = 401
    /\ ~auth.loading
    /\ auth.user = NoUser
    /\ ~auth.access_token
    /\ ~auth.refresh_token

\* the step sends a request from the modal
ModalIssues == modal'.inFlight > modal.inFlight

\* the step hands an answer to the modal that sent the request
ModalAnswered == modal.open /\ modal.request # NoRequest /\ modal'.request = NoRequest

\* C34: a modal has at most one create, update or cancel request in flight,
\* and loading is true exactly while it has one; a request is sent only from
\* controls on the screen and enabled, that is with loading false and
\* isPastReservation false; the answer to a request, success or failure,
\* leaves loading false and loading always returns to false; the load in
\* edit mode sets isPastReservation exactly when the reservation's end_at
\* is not after the current time, and a modal with isPastReservation has
\* its submit and delete controls disabled and has sent no request.
ModalRequestDiscipline ==
    /\ [](modal.inFlight <= 1)
    /\ [](modal.open => (modal.loading <=> modal.inFlight = 1))
    /\ [](modal.open /\ modal.loading => ControlsDisabled(modal))
    /\ [](modal.open /\ modal.isPastReservation =>
             /\ isEdit(modal)
             /\ ControlsDisabled(modal)
             /\ ~ControlsUsable(modal)
             /\ modal.request = NoRequest
             /\ modal.inFlight = 0)
    /\ [][ModalIssues =>
             /\ modal.open /\ ~modal.loadingReservation
             /\ ~modal.loading /\ ~modal.isPastReservation
             /\ modal'.loading
             /\ ~isEdit(modal) => modal'.request.op = "create"
             /\ isEdit(modal) => /\ modal'.request.op \in {"update", "cancel"}
                                 /\ modal'.request.id = modal.reservationId]_vars
    /\ [][ModalAnswered => ~modal'.loading /\ modal'.inFlight = 0]_vars
    /\ [][modal.loadingReservation /\ ~modal'.loadingReservation /\ modal'.open =>
             \/ modal'.error = "load" /\ ~modal'.isPastReservation
             \/ modal'.isPastReservation =
                    (reservations[modal.reservationId].end_at <= now)]_vars
    /\ (modal.loading ~> ~modal.loading)

\* a modal in edit mode that found its reservation past, in a table that a
\* create sent from a modal has filled
ModalRequestDisciplineWitness ==
    /\ modal.open /\ isEdit(modal) /\ ~modal.loadingReservation
    /\ modal.isPastReservation
    /\ Len(reservations) = MaxRes
    /\ \E i \in 1..Len(reservations) : reservations[i].status = "cancelled"

====
